---- MODULE Spec2Model ----
(***************************************************************************)
(* Model of the resilient API-tool layer of the ticketing agent            *)
(* (src/ai_agent/src/tool_factory.py): one tool invocation of get_tickets, *)
(* get_filtered_tickets (_list_tickets_impl), create_ticket                *)
(* (_create_ticket) or update_ticket against an unreliable HTTP backend.   *)
(* The tenacity policy built by _retry_decorator is modelled by            *)
(* RetryPredicate / StopAfterAttempt / WaitExponential / Decide.           *)
(* Spec is one invocation of any tool; SpecParams is the filter serializer *)
(* (_build_params under TicketsFilterInput) over every filter in bounds;   *)
(* SpecConcurrent is two get_filtered_tickets coroutines in flight.        *)
(***************************************************************************)
EXTENDS Integers, Sequences, FiniteSets, TLC

\* ------------------------------------------------------------------ bounds
\* Largest number of tickets the backend holds for a listing.
MaxTickets == 3
\* Largest page size the backend paginates with.
MaxPageSize == 2
\* The last page request the model lets a listing issue (a looping chain of
\* pages has no last page).
MaxPos == MaxTickets + 1
\* Longest id list and longest status list a filter is called with.
MaxIds == 2
MaxStatuses == 3
\* Most consecutive connection errors one request of two concurrent
\* listings suffers.
MaxFaults == 2

\* ------------------------------------------------------- program constants
MAX_ATTEMPTS == 6
\* wait_exponential(multiplier=1.2, min=0, max=10.0), in tenths of a second
WAIT_MULTIPLIER == 12
WAIT_MIN == 0
WAIT_MAX == 100
\* DEFAULT_TIMEOUT_S, in seconds
DEFAULT_TIMEOUT_S == 10
\* r.text[:2000] in _safe_json
RAW_LIMIT == 2000
\* CreateTicketInput: title min_length / max_length
TITLE_MIN == 3
TITLE_MAX == 200
\* CreateTicketInput: description min_length / max_length
DESC_MIN == 1
DESC_MAX == 20000

\* ------------------------------------------------------------ value domain
None == [none |-> TRUE]
BASE_URL == [path |-> "tickets", page |-> 0]
\* The URL the backend puts in a page's next / previous link.
PageUrl(i) == [path |-> "tickets", page |-> i]

Ops == {"get_tickets", "get_filtered_tickets", "create_ticket", "update_ticket"}

\* Status codes the backend answers with: 2xx, a terminal 4xx, 409, 429, 5xx.
StatusCodes == {200, 201, 404, 409, 429, 500, 503}
\* Length of a body that is not decodable JSON.
TextLengths == {7, 2001}
\* What one Transport attempt ends in: a completed HTTP exchange, whose body
\* is JSON or text of some length, or an httpx.RequestError (connection,
\* timeout).
TransportResults ==
    [kind : {"http"}, status : StatusCodes, json : {TRUE}, len : {0}]
    \cup [kind : {"http"}, status : StatusCodes, json : {FALSE}, len : TextLengths]
    \cup {[kind |-> "neterr", status |-> 0, json |-> FALSE, len |-> 0]}

Min(a, b) == IF a <= b THEN a ELSE b
Max(a, b) == IF a >= b THEN a ELSE b

VARIABLES
    op,           \* the tool being invoked
    inp,          \* the arguments it is called with
    total,        \* backend: number of tickets matching the listing
    psize,        \* backend: page size of the listing
    loops,        \* backend: the last page's next link points back to page 1
    pc,           \* Idle, Pending (attempt in flight), RetryWait, Succeeded, Failed
    waiting,      \* which decorated call sleeps in RetryWait: "inner" / "outer"
    attempt,      \* attempt_number of the decorated call that owns the transport
    outerAttempt, \* attempt_number of _list_tickets_impl (1 for the other tools)
    position,     \* ordinal of the page request in flight (1 = first request)
    all_results,  \* _list_tickets_impl's accumulator
    lastReq,      \* the request of the latest transport call
    lastResp,     \* what the transport call before the current state ended in
    reqCalls,     \* transport calls issued for the invocation's first request
                  \* (get_tickets, create, update: every call of the invocation)
    nRetryable,   \* completed attempts answered 429/5xx
    netErrSeen,   \* some attempt ended in a RequestError
    only503,      \* every completed attempt so far was answered 503
    lastWait,     \* the backoff delay being slept, tenths of a second
    result,       \* the value returned to the caller, or None
    error,        \* the exception raised to the caller, or None
    peer,         \* a second invocation of get_filtered_tickets in flight at
                  \* the same time: its own frame (see PeerIdle)
    stored,       \* backend: tickets inserted by this invocation's POSTs
    srv,          \* the ticketing service handling a request (see SrvIdle)
    chat          \* a /chat stream and the CLI reading it (see ChatIdle)

vars == <<op, inp, total, psize, loops, pc, waiting, attempt, outerAttempt,
          position, all_results, lastReq, lastResp, reqCalls, nRetryable,
          netErrSeen, only503, lastWait, result, error, peer, stored, srv,
          chat>>

\* ------------------------------------------------- the backend's page chain
\* DRF pagination shape: {"count", "next", "previous", "results"}.
NumPages == IF total = 0 THEN 1 ELSE (total + psize - 1) \div psize
ResultsOf(i) ==
    [j \in 1..(Min(i * psize, total) - (i - 1) * psize) |-> (i - 1) * psize + j]
NextOf(i) ==
    IF i < NumPages THEN PageUrl(i + 1)
    ELSE IF loops THEN PageUrl(1) ELSE None
PreviousOf(i) == IF i > 1 THEN PageUrl(i - 1) ELSE None
Page(i) ==
    [count |-> total, next |-> NextOf(i), previous |-> PreviousOf(i),
     results |-> ResultsOf(i)]
\* The page a GET of url with params is answered with.
PageAt(url, params) ==
    IF url = BASE_URL
    THEN Page(IF "page" \in DOMAIN params THEN params["page"] ELSE 1)
    ELSE Page(url.page)

\* Python truthiness of a next link: None and "" are falsy.
Truthy(url) == url # None

\* -------------------------------------------------------- the retry policy
\* A retry test that takes every error status for transient.
ShouldRetryOnResponse_AnyError(status) == status >= 400

\* _should_retry_on_response
ShouldRetryOnResponse(status) ==
    status = 429 \/ (500 <= status /\ status < 600)

\* What a decorated function's attempt ends in:
\*   kind "Response": it returned an httpx.Response (status);
\*   kind "value":    it returned anything else (value);
\*   kind "exc":      it raised exc (status: of the response, if any).
Returned(v) == [kind |-> "value", exc |-> "", status |-> 0, value |-> v]
ReturnedResponse(s) == [kind |-> "Response", exc |-> "", status |-> s, value |-> None]
Raised(e, s) == [kind |-> "exc", exc |-> e, status |-> s, value |-> None]

\* A retry test that retries whatever exception the body raises.
RetryPredicate_AnyException(o) ==
    \/ o.kind = "exc"
    \/ o.kind = "Response" /\ ShouldRetryOnResponse(o.status)

\* retry_if_exception_type(httpx.RequestError) | retry_if_result(Response and
\* _should_retry_on_response). httpx.HTTPStatusError is not a RequestError.
RetryPredicate(o) ==
    \/ o.kind = "exc" /\ o.exc = "RequestError"
    \/ o.kind = "Response" /\ ShouldRetryOnResponse(o.status)

\* A stop condition that is off by one: it lets attempt MAX_ATTEMPTS + 1 run.
StopAfterAttempt_OffByOne(n) == n > MAX_ATTEMPTS

\* stop_after_attempt(MAX_ATTEMPTS)
StopAfterAttempt(n) == n >= MAX_ATTEMPTS

RECURSIVE Pow2(_)
Pow2(n) == IF n <= 0 THEN 1 ELSE 2 * Pow2(n - 1)

\* An exponential wait with no upper limit.
WaitExponential_Uncapped(n) == Max(0, WAIT_MULTIPLIER * Pow2(n - 1))

\* wait_exponential(multiplier=1.2, min=0, max=10.0) after attempt n
WaitExponential(n) ==
    Max(Max(0, WAIT_MIN), Min(WAIT_MULTIPLIER * Pow2(n - 1), WAIT_MAX))

\* tenacity's verdict on attempt n that ended in o (reraise=True):
\*   "return" the value, "raise" the exception, "retry" after a backoff;
\*   with the budget spent, an exception is re-raised as it is and a
\*   retryable result raises RetryError, whose last_attempt.attempt_number
\*   is n.
Decide(o, n) ==
    IF RetryPredicate(o)
    THEN IF StopAfterAttempt(n)
         THEN IF o.kind = "exc" THEN "raise" ELSE "retry_error"
         ELSE "retry"
    ELSE IF o.kind = "exc" THEN "raise" ELSE "return"

\* The exception the caller sees for verdict "raise" / "retry_error".
\* Only RetryError records the number of attempts.
ErrorOf(o, n, verdict) ==
    IF verdict = "retry_error"
    THEN [type |-> "RetryError", attempts |-> n, status |-> o.status]
    ELSE [type |-> o.exc, attempts |-> 0, status |-> o.status]

\* ------------------------------------------------------------- the bodies
\* The JSON body the backend sends with a status, outside listings.
JsonBody(status) ==
    IF 200 <= status /\ status < 300
    THEN [id |-> 1, title |-> "x"]
    ELSE [detail |-> status]

\* A fallback that keeps the whole text of the body.
SafeJson_Untruncated(t) ==
    IF t.json THEN JsonBody(t.status) ELSE [raw |-> t.len]

\* _safe_json
SafeJson(t) ==
    IF t.json THEN JsonBody(t.status) ELSE [raw |-> Min(t.len, RAW_LIMIT)]

IsSuccess(status) == 200 <= status /\ status < 300

\* RESOLUTION = Literal["OPEN", "RESOLVED", "CLOSED"]
RESOLUTION == {"OPEN", "RESOLVED", "CLOSED"}
\* Python's str order on the three literals: "CLOSED" < "OPEN" < "RESOLVED".
StrLess(a, b) ==
    \/ a = "CLOSED" /\ b \in {"OPEN", "RESOLVED"}
    \/ a = "OPEN" /\ b = "RESOLVED"

\* sorted(S) for a set S of statuses
RECURSIVE Sorted(_)
Sorted(S) ==
    IF S = {} THEN <<>>
    ELSE LET m == CHOOSE x \in S : \A y \in S \ {x} : StrLess(x, y)
         IN  <<m>> \o Sorted(S \ {m})

\* A validator that leaves the caller's status list as it is.
DedupStatus_AsGiven(v) == v

\* TicketsFilterInput.dedup_status: sorted(set(v)) if v else v
DedupStatus(v) ==
    IF v = <<>> THEN v ELSE Sorted({v[k] : k \in DOMAIN v})

\* TicketsFilterInput(...): the validated filter
TicketsFilterInput(i) ==
    [i EXCEPT !.resolution_status = DedupStatus(i.resolution_status)]

\* ",".join(parts): a joined string is the sequence of its parts and commas
RECURSIVE CommaJoin(_)
CommaJoin(parts) ==
    IF Len(parts) <= 1 THEN parts
    ELSE <<Head(parts), ",">> \o CommaJoin(Tail(parts))

\* map(str, ids)
StrAll(ids) == [k \in DOMAIN ids |-> ToString(ids[k])]

\* A serializer that uses the __in key for every non-empty list.
BuildParams_AlwaysIn(i) ==
    LET keys ==
            (IF i.search # "" THEN {"search"} ELSE {})
            \cup (IF Len(i.id) >= 1 THEN {"id__in"} ELSE {})
            \cup (IF Len(i.resolution_status) >= 1
                  THEN {"resolution_status__in"} ELSE {})
            \cup (IF i.page # 0 THEN {"page"} ELSE {})
            \cup (IF i.page_size # 0 THEN {"page_size"} ELSE {})
    IN  [k \in keys |->
            CASE k = "search" -> i.search
              [] k = "id__in" -> CommaJoin(StrAll(i.id))
              [] k = "resolution_status__in" -> CommaJoin(i.resolution_status)
              [] k = "page" -> i.page
              [] k = "page_size" -> i.page_size]

\* _build_params (a field that is None or empty is falsy: "" / <<>> / 0)
BuildParams(i) ==
    LET keys ==
            (IF i.search # "" THEN {"search"} ELSE {})
            \cup (IF Len(i.id) = 1 THEN {"id"} ELSE {})
            \cup (IF Len(i.id) > 1 THEN {"id__in"} ELSE {})
            \cup (IF Len(i.resolution_status) = 1 THEN {"resolution_status"} ELSE {})
            \cup (IF Len(i.resolution_status) > 1 THEN {"resolution_status__in"} ELSE {})
            \cup (IF i.page # 0 THEN {"page"} ELSE {})
            \cup (IF i.page_size # 0 THEN {"page_size"} ELSE {})
    IN  [k \in keys |->
            CASE k = "search" -> i.search
              [] k = "id" -> ToString(i.id[1])
              [] k = "id__in" -> CommaJoin(StrAll(i.id))
              [] k = "resolution_status" -> i.resolution_status[1]
              [] k = "resolution_status__in" -> CommaJoin(i.resolution_status)
              [] k = "page" -> i.page
              [] k = "page_size" -> i.page_size]

EmptyParams == [k \in {} |-> 0]

\* ---------------------------------------------------------- the requests
\* The text of BASE_URL, "http://ticket-system:8000/api/tickets/": a text is
\* the sequence of its parts, each slash that matters a part of its own.
BASE_URL_TEXT == <<"http://ticket-system:8000/api/tickets", "/">>
\* str.rstrip('/')
RECURSIVE RStripSlash(_)
RStripSlash(text) ==
    IF text # <<>> /\ text[Len(text)] = "/"
    THEN RStripSlash(SubSeq(text, 1, Len(text) - 1)) ELSE text
\* f"{str(BASE_URL).rstrip('/')}/{ticket_id}"
FetchUrl(ticket_id) ==
    RStripSlash(BASE_URL_TEXT) \o <<"/">>
        \o (IF ticket_id = "" THEN <<>> ELSE <<ticket_id>>)
\* dict.setdefault(k, v) on a dict h: keys are compared as they are written
SetDefault(h, k, v) ==
    IF k \in DOMAIN h THEN h
    ELSE [x \in DOMAIN h \cup {k} |-> IF x = k THEN v ELSE h[x]]

\* get_tickets: GET {BASE_URL}/{ticket_id} with the caller's params and the
\* caller's headers, Accept defaulted
FetchRequest(i) ==
    [method |-> "GET", url |-> FetchUrl(i.ticket_id),
     params |-> i.params,
     headers |-> SetDefault(i.headers, "Accept", "application/json"),
     timeout |-> DEFAULT_TIMEOUT_S, json |-> None]
\* str.strip(): a string is a sequence of characters, " " is whitespace
RECURSIVE LStrip(_)
LStrip(str) ==
    IF str # <<>> /\ Head(str) = " " THEN LStrip(Tail(str)) ELSE str
RECURSIVE RStrip(_)
RStrip(str) ==
    IF str # <<>> /\ str[Len(str)] = " "
    THEN RStrip(SubSeq(str, 1, Len(str) - 1)) ELSE str
Strip(str) == RStrip(LStrip(str))

\* _create_ticket: POST BASE_URL with the title stripped
CreateRequest(i) ==
    [method |-> "POST", url |-> BASE_URL, params |-> EmptyParams,
     timeout |-> DEFAULT_TIMEOUT_S,
     json |-> [title |-> Strip(i.title), description |-> i.description]]
\* _list_tickets_impl: the first page, GET BASE_URL with the params of the
\* validated filter
ListRequest(i) ==
    [method |-> "GET", url |-> BASE_URL,
     params |-> BuildParams(TicketsFilterInput(i)),
     timeout |-> i.timeout, json |-> None]
\* A walker that asks for the listing again instead of following the link.
FollowRequest_IgnoresLink(next_url, i) ==
    [method |-> "GET", url |-> BASE_URL, params |-> EmptyParams,
     timeout |-> i.timeout, json |-> None]
\* _list_tickets_impl: a pagination follow, GET next_url with params={}
FollowRequest(next_url, i) ==
    [method |-> "GET", url |-> next_url, params |-> EmptyParams,
     timeout |-> i.timeout, json |-> None]
\* update_ticket: PATCH {base_url}/{ticket_id}/ with the provided fields
PatchRequest(i) ==
    [method |-> "PATCH", url |-> [path |-> "tickets", id |-> i.ticket_id],
     params |-> EmptyParams, timeout |-> i.timeout,
     json |-> [k \in {f \in {"title", "description", "resolution_status"} :
                        i[f] # <<>>} |-> i[k][1]]]

FirstRequest(o, i) ==
    CASE o = "get_tickets" -> FetchRequest(i)
      [] o = "get_filtered_tickets" -> ListRequest(i)
      [] o = "create_ticket" -> CreateRequest(i)
      [] o = "update_ticket" -> PatchRequest(i)

\* ------------------------------------ what one attempt of each body ends in
\* get_tickets raising for every error status before the retry test, so that
\* a 429/5xx answer leaves as an HTTPStatusError instead of a Response.
GetTicketsOutcome_RaiseFirst(t, req) ==
    IF t.kind = "neterr" THEN Raised("RequestError", 0)
    ELSE IF ~IsSuccess(t.status) THEN Raised("HTTPStatusError", t.status)
    ELSE IF ~t.json THEN Raised("ValueError", t.status)
    ELSE Returned([ok |-> TRUE, status |-> t.status, url |-> req.url,
                   data |-> JsonBody(t.status)])

\* get_tickets returning the decoded body itself.
GetTicketsOutcome_BareData(t, req) ==
    IF t.kind = "neterr" THEN Raised("RequestError", 0)
    ELSE IF ShouldRetryOnResponse(t.status) THEN ReturnedResponse(t.status)
    ELSE IF ~IsSuccess(t.status) THEN Raised("HTTPStatusError", t.status)
    ELSE IF ~t.json THEN Raised("ValueError", t.status)
    ELSE Returned(JsonBody(t.status))

\* get_tickets, lines 209-233
GetTicketsOutcome(t, req) ==
    IF t.kind = "neterr" THEN Raised("RequestError", 0)
    ELSE IF ShouldRetryOnResponse(t.status) THEN ReturnedResponse(t.status)
    ELSE IF ~IsSuccess(t.status) THEN Raised("HTTPStatusError", t.status)
    ELSE IF ~t.json THEN Raised("ValueError", t.status)
    ELSE Returned([ok |-> TRUE, status |-> t.status, url |-> req.url,
                   data |-> JsonBody(t.status)])

\* _create_ticket without the 409 branch: every error status is raised.
CreateTicketOutcome_No409(t) ==
    IF t.kind = "neterr" THEN Raised("RequestError", 0)
    ELSE IF ~IsSuccess(t.status) THEN Raised("HTTPStatusError", t.status)
    ELSE Returned(SafeJson(t))

\* _create_ticket, lines 73-82
CreateTicketOutcome(t) ==
    IF t.kind = "neterr" THEN Raised("RequestError", 0)
    ELSE IF ~IsSuccess(t.status)
         THEN IF t.status = 409 THEN Returned(SafeJson(t))
              ELSE Raised("HTTPStatusError", t.status)
    ELSE Returned(SafeJson(t))

\* _get_json, lines 89-91
GetJsonOutcome(t, req) ==
    IF t.kind = "neterr" THEN Raised("RequestError", 0)
    ELSE IF ~IsSuccess(t.status) THEN Raised("HTTPStatusError", t.status)
    ELSE IF ~t.json THEN Raised("JSONDecodeError", t.status)
    ELSE Returned(PageAt(req.url, req.params))

\* _patch, line 171
PatchOutcome(t) ==
    IF t.kind = "neterr" THEN Raised("RequestError", 0)
    ELSE ReturnedResponse(t.status)

\* update_ticket, lines 305-308: the decoded body of an error response, or
\* its whole text when it is not JSON
ErrorDetail(t) == IF t.json THEN JsonBody(t.status) ELSE [text |-> t.len]

\* update_ticket raising for every error status with raise_for_status(),
\* whose exception does not quote the body.
UpdateTicketOutcome_NoDetail(t) ==
    IF 400 <= t.status /\ t.status < 600 THEN Raised("HTTPStatusError", t.status)
    ELSE IF ~t.json THEN Raised("JSONDecodeError", t.status)
    ELSE Returned(JsonBody(t.status))

\* update_ticket after _patch returned resp, lines 301-315; the exception
\* built for a 4xx carries the detail (in value)
UpdateTicketOutcome(t) ==
    IF 500 <= t.status /\ t.status < 600 THEN Raised("HTTPStatusError", t.status)
    ELSE IF 400 <= t.status /\ t.status < 500
         THEN [kind |-> "exc", exc |-> "HTTPStatusError", status |-> t.status,
               value |-> ErrorDetail(t)]
    ELSE IF ~t.json THEN Raised("JSONDecodeError", t.status)
    ELSE Returned(JsonBody(t.status))

\* ------------------------------------------------------------------ inputs
\* A string of n characters c.
Chars(n, c) == [k \in 1..n |-> c]

\* An optional argument is <<>> (None) or <<v>>.
\* None and {} are both the empty dict here (params or {}, headers or {}).
FetchInputs ==
    [ticket_id : {"", "1"},
     params : {EmptyParams, [k \in {"page"} |-> 2]},
     headers : {EmptyParams,
                [k \in {"Accept"} |-> "text/html"],
                [k \in {"accept"} |-> "text/html"],
                [k \in {"X-Trace"} |-> "1"],
                [k \in {"Accept", "X-Trace"} |->
                    IF k = "Accept" THEN "text/csv" ELSE "1"]}]
\* Titles and descriptions on both sides of every length limit.
CreateInputs ==
    [title : {<<"a", "b">>, <<"a", "b", "c">>, <<" ", "a", " ">>,
              Chars(TITLE_MAX, "t"), Chars(TITLE_MAX + 1, "t")},
     description : {<<>>, <<"d">>, Chars(DESC_MAX, "d"),
                    Chars(DESC_MAX + 1, "d")}]
FilterInputs ==
    [search : {""}, id : {<<>>}, resolution_status : {<<>>}, page : {1},
     page_size : {0}, fetch_all : BOOLEAN, timeout : {5}]
\* Each optional field is absent, the empty string, or a value.
UpdateInputs ==
    [ticket_id : {"1"}, title : {<<>>, <<"">>, <<"x">>},
     description : {<<>>, <<"">>, <<"y">>},
     resolution_status : {<<>>, <<"CLOSED">>}, timeout : {10}]

\* CreateTicketInput(title=..., description=...): the Field constraints are
\* checked on the arguments as given (the title before it is stripped).
CreateTicketInputValid(i) ==
    /\ TITLE_MIN <= Len(i.title) /\ Len(i.title) <= TITLE_MAX
    /\ DESC_MIN <= Len(i.description) /\ Len(i.description) <= DESC_MAX

\* Python truthiness of an optional string: None and "" are falsy.
TruthyField(f) == f # <<>> /\ f[1] # ""

\* update_ticket, line 283: title or description or resolution_status
UpdateGuard(i) ==
    TruthyField(i.title) \/ TruthyField(i.description)
        \/ TruthyField(i.resolution_status)

\* Filters for the serializer: id lists and status lists in every order and
\* multiplicity up to the bounds.
TicketIds == {5, 7}
SeqsUpTo(S, n) == UNION {[1..m -> S] : m \in 0..n}
FilterArgs ==
    [search : {"", "mail"}, id : SeqsUpTo(TicketIds, MaxIds),
     resolution_status : SeqsUpTo(RESOLUTION, MaxStatuses), page : {1},
     page_size : {0, 2}, fetch_all : {FALSE}, timeout : {5}]

InputsOf(o) ==
    CASE o = "get_tickets" -> FetchInputs
      [] o = "get_filtered_tickets" -> FilterInputs
      [] o = "create_ticket" -> CreateInputs
      [] o = "update_ticket" -> UpdateInputs


NoResp == [kind |-> "none", status |-> 0, json |-> FALSE, len |-> 0]

\* An invocation that has not started.
NotStarted ==
    /\ pc = "Idle"
    /\ waiting = "none"
    /\ attempt = 0
    /\ outerAttempt = 0
    /\ position = 0
    /\ all_results = <<>>
    /\ lastReq = None
    /\ lastResp = NoResp
    /\ reqCalls = 0
    /\ nRetryable = 0
    /\ netErrSeen = FALSE
    /\ only503 = TRUE
    /\ lastWait = 0
    /\ result = None
    /\ error = None

\* The frame of a coroutine of _list_tickets_impl that has not started: its
\* locals (all_results, the request in flight) and the tenacity call states
\* of its two decorated calls (attempt numbers, the delay being slept).
PeerIdle ==
    [pc |-> "Idle", waiting |-> "none", attempt |-> 0, outerAttempt |-> 0,
     position |-> 0, all_results |-> <<>>, lastReq |-> None, lastWait |-> 0,
     result |-> None, error |-> None]

\* The ticket the service holds at the start.
InitialStore ==
    <<[title |-> "t0", description |-> "d0", resolution_status |-> "OPEN"]>>
\* The service with no request taken yet.
SrvIdle ==
    [stage |-> "none", req |-> None, status |-> 0, simulated |-> FALSE,
     passed |-> FALSE, store |-> InitialStore, before |-> InitialStore,
     handled |-> 0]
\* stream_chat not yet iterated, the CLI not yet reading.
ChatIdle ==
    [pc |-> "new", frames |-> <<>>, messages |-> <<>>, raised |-> FALSE,
     read |-> 0, cli |-> "reading"]
\* The parts of the system an invocation of a tool does not run.
Elsewhere == srv = SrvIdle /\ chat = ChatIdle

Init ==
    /\ op \in Ops
    /\ inp \in InputsOf(op)
    /\ IF op = "get_filtered_tickets"
       THEN total \in 0..MaxTickets /\ psize \in 1..MaxPageSize /\ loops \in BOOLEAN
       ELSE total = 0 /\ psize = 1 /\ loops = FALSE
    /\ NotStarted
    /\ peer = PeerIdle
    /\ stored = 0
    /\ Elsewhere

\* The backend and the input do not change during an invocation.
Frame == UNCHANGED <<op, inp, total, psize, loops, peer, srv, chat>>

\* A transport call is issued for request req, the pos-th of the invocation.
Send(req, pos) ==
    /\ lastReq' = req
    /\ position' = pos
    /\ reqCalls' = IF pos = 1 THEN reqCalls + 1 ELSE reqCalls
    /\ pc' = "Pending"
    /\ waiting' = "none"

\* The transport call in flight ends in t.
Receive(t) ==
    /\ lastResp' = t
    /\ nRetryable' = IF t.kind = "http" /\ ShouldRetryOnResponse(t.status)
                     THEN nRetryable + 1 ELSE nRetryable
    /\ netErrSeen' = (netErrSeen \/ t.kind = "neterr")
    /\ only503' = (only503 /\ t.kind = "http" /\ t.status = 503)

\* What checking the arguments ends in before any request is built:
\* _create_ticket builds CreateTicketInput inside its decorated body
\* (pydantic ValidationError), update_ticket tests its guard before _patch is
\* called (ValueError); TRUE stands for "the arguments pass".
CheckArguments(o, i) ==
    CASE o = "create_ticket" ->
            IF CreateTicketInputValid(i) THEN Returned(TRUE)
            ELSE Raised("ValidationError", 0)
      [] o = "update_ticket" ->
            IF UpdateGuard(i) THEN Returned(TRUE) ELSE Raised("ValueError", 0)
      [] OTHER -> Returned(TRUE)

\* The call returns value v to the caller.
Succeed(v) ==
    /\ pc' = "Succeeded"
    /\ result' = v
    /\ UNCHANGED <<error, waiting, lastWait>>

\* The call raises e to the caller.
Fail(e) ==
    /\ pc' = "Failed"
    /\ error' = e
    /\ UNCHANGED <<result, waiting, lastWait>>

\* tenacity sleeps wait_exponential(n) before attempt n + 1 of the decorated
\* call at level ("inner": the one that owns the transport call; "outer":
\* _list_tickets_impl around _get_json).
EnterRetryWait(level, n) ==
    /\ pc' = "RetryWait"
    /\ waiting' = level
    /\ lastWait' = WaitExponential(n)
    /\ UNCHANGED <<result, error>>

\* A single-level decorated call settles attempt `attempt` that ended in o.
Settle(o) ==
    LET v == Decide(o, attempt) IN
    CASE v = "retry" -> EnterRetryWait("inner", attempt)
      [] v = "return" -> Succeed(o.value)
      [] OTHER -> Fail(ErrorOf(o, attempt, v))

NoSend == UNCHANGED <<lastReq, position, reqCalls>>

\* The tool is invoked. Arguments that pass start the first attempt of the
\* decorated coroutine, which issues the first request. Arguments that do
\* not pass raise with no request issued: inside attempt 1 of the decorated
\* _create_ticket, where tenacity decides on the exception, and ahead of any
\* decorated call in update_ticket.
Invoke ==
    /\ pc = "Idle"
    /\ LET c == CheckArguments(op, inp) IN
       IF c.kind = "value"
       THEN /\ attempt' = 1
            /\ outerAttempt' = 1
            /\ Send(FirstRequest(op, inp), 1)
            /\ UNCHANGED <<lastWait, result, error>>
       ELSE /\ attempt' = (IF op = "create_ticket" THEN 1 ELSE 0)
            /\ outerAttempt' = attempt'
            /\ IF op = "create_ticket"
               THEN LET v == Decide(c, 1) IN
                    CASE v = "retry" -> EnterRetryWait("inner", 1)
                      [] OTHER -> Fail(ErrorOf(c, 1, v))
               ELSE Fail(ErrorOf(c, 0, "raise"))
            /\ NoSend
    /\ Frame /\ UNCHANGED stored
    /\ UNCHANGED <<all_results, lastResp, nRetryable, netErrSeen, only503>>

\* ----------------------------------------------------------------- actions
\* An attempt of get_tickets completes with t.
GetTicketsAttempt(t) ==
    /\ op = "get_tickets" /\ pc = "Pending"
    /\ Receive(t)
    /\ Settle(GetTicketsOutcome(t, lastReq))
    /\ NoSend /\ Frame /\ UNCHANGED stored
    /\ UNCHANGED <<attempt, outerAttempt, all_results>>

\* Whether the POST of an attempt that ended in t inserted a ticket
\* (TicketViewSet is a plain ModelViewSet: every POST it handles inserts and
\* is answered 2xx). An attempt that ends in a RequestError may have failed
\* before the request arrived (connection error) or after the service
\* handled it (read timeout): both are possible.
InsertedBy(t) ==
    IF t.kind = "neterr" THEN BOOLEAN ELSE {IsSuccess(t.status)}

\* An attempt of _create_ticket completes with t.
CreateTicketAttempt(t) ==
    /\ op = "create_ticket" /\ pc = "Pending"
    /\ Receive(t)
    /\ Settle(CreateTicketOutcome(t))
    /\ \E inserted \in InsertedBy(t) :
           stored' = stored + (IF inserted THEN 1 ELSE 0)
    /\ NoSend /\ Frame
    /\ UNCHANGED <<attempt, outerAttempt, all_results>>

\* An attempt of _patch completes with t; when _patch returns the response,
\* update_ticket goes on with lines 301-315.
PatchAttempt(t) ==
    /\ op = "update_ticket" /\ pc = "Pending"
    /\ Receive(t)
    /\ LET o == PatchOutcome(t)
           v == Decide(o, attempt)
       IN  IF v = "return"
           THEN LET u == UpdateTicketOutcome(t)
                IN  IF u.kind = "exc"
                    THEN Fail(IF u.value = None
                              THEN ErrorOf(u, attempt, "raise")
                              ELSE [type |-> u.exc, attempts |-> 0,
                                    status |-> u.status, detail |-> u.value])
                    ELSE Succeed(u.value)
           ELSE Settle(o)
    /\ NoSend /\ Frame /\ UNCHANGED stored
    /\ UNCHANGED <<attempt, outerAttempt, all_results>>

\* A listing that, when a request fails for good, returns what it has
\* gathered so far instead of raising.
SettleListing_Partial(o) ==
    LET v == Decide(o, outerAttempt) IN
    CASE v = "retry" -> EnterRetryWait("outer", outerAttempt)
      [] v = "return" -> Succeed(o.value)
      [] OTHER -> Succeed([count |-> Len(all_results), next |-> None,
                           previous |-> None, results |-> all_results])

\* _list_tickets_impl raises or returns: its own decorator settles attempt
\* outerAttempt of the whole listing.
SettleListing(o) ==
    LET v == Decide(o, outerAttempt) IN
    CASE v = "retry" -> EnterRetryWait("outer", outerAttempt)
      [] v = "return" -> Succeed(o.value)
      [] OTHER -> Fail(ErrorOf(o, outerAttempt, v))

\* A walker that starts the accumulator empty, losing the first page.
Walk_DropsFirstPage(page) ==
    IF position = 1
    THEN IF inp.fetch_all /\ "results" \in DOMAIN page /\ Truthy(page.next)
         THEN /\ all_results' = <<>>
              /\ position < MaxPos
              /\ Send(FollowRequest(page.next, inp), position + 1)
              /\ attempt' = 1
              /\ UNCHANGED <<result, error, lastWait>>
         ELSE /\ SettleListing(Returned(page))
              /\ NoSend
              /\ UNCHANGED <<all_results, attempt>>
    ELSE /\ all_results' = all_results \o page.results
         /\ IF Truthy(page.next)
            THEN /\ position < MaxPos
                 /\ Send(FollowRequest(page.next, inp), position + 1)
                 /\ attempt' = 1
                 /\ UNCHANGED <<result, error, lastWait>>
            ELSE /\ SettleListing(Returned(
                        [count |-> Len(all_results'), next |-> None,
                         previous |-> None, results |-> all_results']))
                 /\ NoSend
                 /\ UNCHANGED attempt

\* A walker that follows next links whether or not fetch_all is set.
Walk_IgnoresFetchAll(page) ==
    IF position = 1
    THEN IF "results" \in DOMAIN page /\ Truthy(page.next)
         THEN /\ all_results' = page.results
              /\ position < MaxPos
              /\ Send(FollowRequest(page.next, inp), position + 1)
              /\ attempt' = 1
              /\ UNCHANGED <<result, error, lastWait>>
         ELSE /\ SettleListing(Returned(page))
              /\ NoSend
              /\ UNCHANGED <<all_results, attempt>>
    ELSE /\ all_results' = all_results \o page.results
         /\ IF Truthy(page.next)
            THEN /\ position < MaxPos
                 /\ Send(FollowRequest(page.next, inp), position + 1)
                 /\ attempt' = 1
                 /\ UNCHANGED <<result, error, lastWait>>
            ELSE /\ SettleListing(Returned(
                        [count |-> Len(all_results'), next |-> None,
                         previous |-> None, results |-> all_results']))
                 /\ NoSend
                 /\ UNCHANGED attempt

\* A walker with a page cap: it stops after the second page.
Walk_Capped(page) ==
    IF position = 1
    THEN IF inp.fetch_all /\ "results" \in DOMAIN page /\ Truthy(page.next)
         THEN /\ all_results' = page.results
              /\ position < MaxPos
              /\ Send(FollowRequest(page.next, inp), position + 1)
              /\ attempt' = 1
              /\ UNCHANGED <<result, error, lastWait>>
         ELSE /\ SettleListing(Returned(page))
              /\ NoSend
              /\ UNCHANGED <<all_results, attempt>>
    ELSE /\ all_results' = all_results \o page.results
         /\ SettleListing(Returned(
                [count |-> Len(all_results'), next |-> None,
                 previous |-> None, results |-> all_results']))
         /\ NoSend
         /\ UNCHANGED attempt

\* The page-following logic of _list_tickets_impl, lines 142-162, once
\* _get_json has returned page: either the next request is issued or the
\* listing returns.
Walk(page) ==
    IF position = 1
    THEN IF inp.fetch_all /\ "results" \in DOMAIN page /\ Truthy(page.next)
         THEN /\ all_results' = page.results
              /\ position < MaxPos
              /\ Send(FollowRequest(page.next, inp), position + 1)
              /\ attempt' = 1
              /\ UNCHANGED <<result, error, lastWait>>
         ELSE /\ SettleListing(Returned(page))
              /\ NoSend
              /\ UNCHANGED <<all_results, attempt>>
    ELSE /\ all_results' = all_results \o page.results
         /\ IF Truthy(page.next)
            THEN /\ position < MaxPos
                 /\ Send(FollowRequest(page.next, inp), position + 1)
                 /\ attempt' = 1
                 /\ UNCHANGED <<result, error, lastWait>>
            ELSE /\ SettleListing(Returned(
                        [count |-> Len(all_results'), next |-> None,
                         previous |-> None, results |-> all_results']))
                 /\ NoSend
                 /\ UNCHANGED attempt

\* An attempt of _get_json (first page or pagination follow) completes
\* with t.
GetJsonAttempt(t) ==
    /\ op = "get_filtered_tickets" /\ pc = "Pending"
    /\ Receive(t)
    /\ LET o == GetJsonOutcome(t, lastReq)
           v == Decide(o, attempt)
       IN  CASE v = "retry" ->
                    /\ EnterRetryWait("inner", attempt)
                    /\ NoSend
                    /\ UNCHANGED <<all_results, attempt>>
             [] v = "return" -> Walk(o.value)
             [] OTHER ->
                    /\ SettleListing(Raised(ErrorOf(o, attempt, v).type, o.status))
                    /\ NoSend
                    /\ UNCHANGED <<all_results, attempt>>
    /\ Frame /\ UNCHANGED stored
    /\ UNCHANGED outerAttempt

\* The backoff delay elapses and the next attempt starts: the inner call
\* re-issues its request; _list_tickets_impl starts over from the first page.
BackoffElapses ==
    /\ pc = "RetryWait"
    /\ IF waiting = "inner"
       THEN /\ attempt' = attempt + 1
            /\ Send(lastReq, position)
            /\ UNCHANGED <<outerAttempt, all_results>>
       ELSE /\ outerAttempt' = outerAttempt + 1
            /\ attempt' = 1
            /\ all_results' = <<>>
            /\ Send(ListRequest(inp), 1)
    /\ Frame /\ UNCHANGED stored
    /\ lastResp' = NoResp
    /\ lastWait' = 0
    /\ UNCHANGED <<nRetryable, netErrSeen, only503, result, error>>

\* The caller cancels the call while it awaits an attempt or a backoff delay:
\* CancelledError is no RequestError, so no decorator retries it.
Cancel ==
    /\ pc \in {"Pending", "RetryWait"}
    /\ Fail([type |-> "CancelledError", attempts |-> 0, status |-> 0])
    /\ NoSend /\ Frame /\ UNCHANGED stored
    /\ UNCHANGED <<attempt, outerAttempt, all_results, lastResp, nRetryable,
                   netErrSeen, only503>>

Next ==
    \/ Invoke
    \/ \E t \in TransportResults : GetTicketsAttempt(t)
    \/ \E t \in TransportResults : CreateTicketAttempt(t)
    \/ \E t \in TransportResults : PatchAttempt(t)
    \/ \E t \in TransportResults : GetJsonAttempt(t)
    \/ BackoffElapses
    \/ Cancel

Spec == Init /\ [][Next]_vars

\* --------------------------------------------- the filter serializer alone
\* get_filtered_tickets called with each filter of FilterArgs, up to the
\* first request it builds.
InitParams ==
    /\ op = "get_filtered_tickets"
    /\ inp \in FilterArgs
    /\ total = 0 /\ psize = 1 /\ loops = FALSE
    /\ NotStarted
    /\ peer = PeerIdle
    /\ stored = 0
    /\ Elsewhere

NextParams == Invoke

SpecParams == InitParams /\ [][NextParams]_vars

\* ------------------------------------------- two invocations in flight
\* A second coroutine of get_filtered_tickets runs on the same event loop,
\* with the same filter against the same backend. Its state is the frame
\* `peer`; the first invocation's is the variables above.
Own == <<pc, waiting, attempt, outerAttempt, position, all_results, lastReq,
         lastResp, reqCalls, nRetryable, netErrSeen, only503, lastWait,
         result, error>>

\* The peer's _list_tickets_impl raises or returns (cf. SettleListing).
PeerSettleListing(c, o) ==
    LET v == Decide(o, c.outerAttempt) IN
    CASE v = "retry" ->
            [c EXCEPT !.pc = "RetryWait", !.waiting = "outer",
                      !.lastWait = WaitExponential(c.outerAttempt)]
      [] v = "return" -> [c EXCEPT !.pc = "Succeeded", !.result = o.value]
      [] OTHER ->
            [c EXCEPT !.pc = "Failed",
                      !.error = ErrorOf(o, c.outerAttempt, v)]

\* The peer's page-following logic (cf. Walk).
PeerWalk(c, page) ==
    IF c.position = 1
    THEN IF inp.fetch_all /\ "results" \in DOMAIN page /\ Truthy(page.next)
         THEN [c EXCEPT !.all_results = page.results,
                        !.position = 2,
                        !.lastReq = FollowRequest(page.next, inp),
                        !.attempt = 1]
         ELSE PeerSettleListing(c, Returned(page))
    ELSE LET acc == c.all_results \o page.results IN
         IF Truthy(page.next)
         THEN [c EXCEPT !.all_results = acc,
                        !.position = c.position + 1,
                        !.lastReq = FollowRequest(page.next, inp),
                        !.attempt = 1]
         ELSE PeerSettleListing(
                  [c EXCEPT !.all_results = acc],
                  Returned([count |-> Len(acc), next |-> None,
                            previous |-> None, results |-> acc]))

\* The peer's frame after its attempt in flight ended in t
\* (cf. GetJsonAttempt).
PeerAfter(c, t) ==
    LET o == GetJsonOutcome(t, c.lastReq)
        v == Decide(o, c.attempt)
    IN  CASE v = "retry" ->
                [c EXCEPT !.pc = "RetryWait", !.waiting = "inner",
                          !.lastWait = WaitExponential(c.attempt)]
          [] v = "return" -> PeerWalk(c, o.value)
          [] OTHER ->
                PeerSettleListing(
                    c, Raised(ErrorOf(o, c.attempt, v).type, o.status))

\* What the transport answers two concurrent listings with.
ConcurrentResults ==
    {t \in TransportResults :
        t.kind = "neterr" \/ (t.json /\ t.status \in {200, 404})}

PeerInvoke ==
    /\ peer.pc = "Idle"
    /\ peer' = [peer EXCEPT !.pc = "Pending", !.attempt = 1,
                            !.outerAttempt = 1, !.position = 1,
                            !.lastReq = ListRequest(inp)]
    /\ UNCHANGED <<op, inp, total, psize, loops, stored, srv, chat>>
    /\ UNCHANGED Own

\* A peer whose pages land in the first invocation's accumulator: one list
\* shared by every call.
PeerAttempt_SharedAccumulator(t) ==
    /\ peer.pc = "Pending"
    /\ (t.kind = "neterr") => peer.attempt <= MaxFaults
    /\ peer' = PeerAfter(peer, t)
    /\ all_results' = (IF peer'.pc = "Pending" /\ peer'.position > peer.position
                       THEN all_results \o peer'.all_results
                       ELSE all_results)
    /\ UNCHANGED <<op, inp, total, psize, loops, stored, srv, chat>>
    /\ UNCHANGED <<pc, waiting, attempt, outerAttempt, position, lastReq,
                   lastResp, reqCalls, nRetryable, netErrSeen, only503,
                   lastWait, result, error>>

\* An attempt of the peer's _get_json completes with t.
PeerAttempt(t) ==
    /\ peer.pc = "Pending"
    /\ (t.kind = "neterr") => peer.attempt <= MaxFaults
    /\ peer' = PeerAfter(peer, t)
    /\ UNCHANGED <<op, inp, total, psize, loops, stored, srv, chat>>
    /\ UNCHANGED Own

\* The peer's backoff delay elapses (cf. BackoffElapses).
PeerBackoffElapses ==
    /\ peer.pc = "RetryWait"
    /\ peer' = IF peer.waiting = "inner"
               THEN [peer EXCEPT !.pc = "Pending", !.waiting = "none",
                                 !.lastWait = 0, !.attempt = peer.attempt + 1]
               ELSE [peer EXCEPT !.pc = "Pending", !.waiting = "none",
                                 !.lastWait = 0, !.attempt = 1,
                                 !.outerAttempt = peer.outerAttempt + 1,
                                 !.all_results = <<>>, !.position = 1,
                                 !.lastReq = ListRequest(inp)]
    /\ UNCHANGED <<op, inp, total, psize, loops, stored, srv, chat>>
    /\ UNCHANGED Own

\* An attempt of the first invocation completes with t, under the same
\* bound on consecutive connection errors.
OwnAttempt(t) ==
    /\ (t.kind = "neterr") => attempt <= MaxFaults
    /\ GetJsonAttempt(t)

InitConcurrent ==
    /\ op = "get_filtered_tickets"
    /\ inp \in {i \in FilterInputs : i.fetch_all}
    /\ total \in 2..MaxTickets /\ psize = 1 /\ loops = FALSE
    /\ NotStarted
    /\ peer = PeerIdle
    /\ stored = 0
    /\ Elsewhere

NextConcurrent ==
    \/ Invoke
    \/ \E t \in ConcurrentResults : OwnAttempt(t)
    \/ BackoffElapses
    \/ PeerInvoke
    \/ \E t \in ConcurrentResults : PeerAttempt(t)
    \/ PeerBackoffElapses

SpecConcurrent == InitConcurrent /\ [][NextConcurrent]_vars

\* ================================================================== claims
Done == pc \in {"Succeeded", "Failed"}
Cancelled == pc = "Failed" /\ error.type = "CancelledError"
GotHttp == lastResp.kind = "http"
GotRetryable == GotHttp /\ ShouldRetryOnResponse(lastResp.status)
\* a 4xx status other than 429
Terminal4xx(status) == 400 <= status /\ status < 500 /\ status # 429

C2_RetryableAbsorbedForEveryTool ==
    (GotRetryable /\ attempt < MAX_ATTEMPTS /\ outerAttempt < MAX_ATTEMPTS) =>
        (pc = "RetryWait" \/ Cancelled)

\* C3: no request of an invocation is handed to the transport more than
\* MAX_ATTEMPTS times (counted here for the invocation's first request).
C3_AtMostMaxAttemptsPerRequest == reqCalls <= MAX_ATTEMPTS

\* C4 as stated: on every tool, a 4xx answer other than 429 ends the call
\* with a terminal HTTP error.
C4_Every4xxIsTerminalError ==
    (GotHttp /\ Terminal4xx(lastResp.status)) =>
        (pc = "Failed" /\ error.type = "HTTPStatusError")

\* C4 amended: on every tool, a 4xx answer other than 429 -- and other than
\* 409 on create_ticket -- is never retried: the call fails at once with an
\* HTTPStatusError of that status, the transport calls made are those up to
\* and including that answer (1 if it was the first answer), and no retry
\* wait is entered.
C4_Terminal4xxNeverRetried ==
    (GotHttp /\ Terminal4xx(lastResp.status)
        /\ ~(op = "create_ticket" /\ lastResp.status = 409)) =>
        /\ pc = "Failed"
        /\ error.type = "HTTPStatusError"
        /\ error.status = lastResp.status
        /\ result = None
        /\ (op # "get_filtered_tickets") => reqCalls = attempt
        /\ (nRetryable = 0 /\ ~netErrSeen) =>
               (attempt = 1 /\ outerAttempt = 1 /\ (position = 1 => reqCalls = 1))

C4_Witness ==
    /\ op = "get_tickets" /\ GotHttp /\ lastResp.status = 404
    /\ pc = "Failed" /\ error.type = "HTTPStatusError" /\ reqCalls = 1

\* C5: on create_ticket a 409 answer is a success: the call returns the
\* decoded body (_safe_json of it), raises nothing and enters no retry wait,
\* whatever the number of attempts before it.
C5_Create409IsSuccess ==
    (op = "create_ticket" /\ GotHttp /\ lastResp.status = 409) =>
        /\ pc = "Succeeded"
        /\ error = None
        /\ result \in {JsonBody(409)}
                        \cup {[raw |-> Min(l, RAW_LIMIT)] : l \in TextLengths}

C5_Witness ==
    /\ op = "create_ticket" /\ GotHttp /\ lastResp.status = 409
    /\ pc = "Succeeded" /\ result = JsonBody(409) /\ reqCalls > 1

\* C6: recovery on get_tickets. Every 429/5xx answer before the budget is
\* spent leads to a backoff wait; an attempt is started only from Idle or out
\* of a wait of wait_exponential(attempt); and a 2xx answer with a JSON body
\* ends the call with {ok: true, status, url, data: body} and no error, after
\* exactly k + 1 transport attempts when k retryable answers (and no network
\* error) came before it.
C6_FetchState ==
    (op = "get_tickets") =>
        /\ (GotRetryable /\ attempt < MAX_ATTEMPTS) => (pc = "RetryWait" \/ Cancelled)
        /\ (pc = "RetryWait") => lastWait = WaitExponential(attempt)
        /\ (GotHttp /\ IsSuccess(lastResp.status)) =>
               \/ pc = "Succeeded"
               \/ pc = "Failed" /\ error.type = "ValueError"
        /\ (pc = "Succeeded") =>
               /\ GotHttp /\ IsSuccess(lastResp.status)
               /\ result = [ok |-> TRUE, status |-> lastResp.status,
                            url |-> lastReq.url, data |-> JsonBody(lastResp.status)]
               /\ error = None
               /\ reqCalls = attempt
               /\ ~netErrSeen => reqCalls = nRetryable + 1
C6_FetchStep ==
    (op = "get_tickets" /\ reqCalls' # reqCalls) =>
        \/ pc = "Idle" /\ reqCalls' = 1
        \/ pc = "RetryWait" /\ reqCalls' = reqCalls + 1 /\ attempt' = attempt + 1
C6_FetchRecovers == []C6_FetchState /\ [][C6_FetchStep]_vars

C6_Witness ==
    /\ op = "get_tickets" /\ pc = "Succeeded"
    /\ reqCalls = 3 /\ nRetryable = 2 /\ ~netErrSeen
    /\ lastResp.status = 200
    /\ result.ok /\ result.status = 200 /\ result.data = [id |-> 1, title |-> "x"]

\* The results of pages i .. NumPages of the backend's chain, in page order.
RECURSIVE ChainResults(_)
ChainResults(i) ==
    IF i > NumPages THEN <<>> ELSE ResultsOf(i) \o ChainResults(i + 1)

IsListing == op = "get_filtered_tickets"
\* the walker is activated: fetch_all and the first page has a next link
Walks == IsListing /\ inp.fetch_all /\ Truthy(Page(1).next)
\* the page that the pos-th request of a listing asks for
PageIndex(pos) == ((pos - 1) % NumPages) + 1

\* C7: a fetch_all listing whose first page has a next link returns one page:
\* results are the pages' results concatenated in page order, count is
\* their number, next and previous are null.
C7_AggregatesInPageOrder ==
    (Walks /\ pc = "Succeeded") =>
        result = [count |-> Len(ChainResults(1)), next |-> None,
                  previous |-> None, results |-> ChainResults(1)]

C7_Witness ==
    /\ Walks /\ pc = "Succeeded" /\ NumPages = 3 /\ psize = 1
    /\ result.results = <<1, 2, 3>> /\ result.count = 3 /\ result.next = None

\* C8: without fetch_all, or when the first page's next is null, a listing
\* issues no follow request and returns the first response as it is (the
\* server's count, next and previous); the other tools never follow a link.
C8_WalkerOnlyWhenFetchAll ==
    /\ ~IsListing => position <= 1
    /\ (IsListing /\ ~Walks) =>
           /\ position <= 1
           /\ all_results = <<>>
           /\ (pc = "Succeeded") => result = Page(1)
           /\ (GotHttp /\ IsSuccess(lastResp.status)) =>
                  (pc = "Succeeded"
                      \/ (pc = "Failed" /\ error.type = "JSONDecodeError"))

C8_Witness ==
    /\ IsListing /\ ~inp.fetch_all /\ Truthy(Page(1).next)
    /\ pc = "Succeeded" /\ result = Page(1)
    /\ result.next = PageUrl(2) /\ result.count = total
    /\ Len(result.results) < total

\* C9: the walker stops exactly when a fetched page's next is null: it
\* returns only then, having followed every link of the chain, and after a
\* page whose next is not null the next request is in flight at once; every
\* follow request is a GET of the previous page's next URL with empty params
\* and the listing's timeout; a chain whose links never become null is never
\* returned from.
C9_WalkerStopsAtNullNext ==
    Walks =>
        /\ (pc = "Succeeded") =>
               /\ position = NumPages
               /\ NextOf(PageIndex(position)) = None
        /\ loops => pc # "Succeeded"
        /\ (position >= 2) =>
               /\ Truthy(NextOf(PageIndex(position - 1)))
               /\ lastReq = [method |-> "GET",
                             url |-> NextOf(PageIndex(position - 1)),
                             params |-> EmptyParams,
                             timeout |-> inp.timeout, json |-> None]
        /\ (GotHttp /\ IsSuccess(lastResp.status) /\ ~Done) =>
               /\ pc = "Pending"
               /\ position >= 2
        /\ (GotHttp /\ IsSuccess(lastResp.status) /\ pc = "Failed") =>
               error.type \in {"JSONDecodeError", "CancelledError"}

C9_Witness ==
    /\ Walks /\ pc = "Succeeded" /\ NumPages = 3 /\ position = 3
    /\ netErrSeen /\ lastReq.url = PageUrl(3) /\ lastReq.params = EmptyParams

\* C10: a listing never hands out a partial result: a call that fails, by
\* cancellation or by a request failing for good, returns nothing, and a call
\* that returns gives the first page as it is or the whole chain's results.
C10_NoPartialListing ==
    IsListing =>
        /\ (pc # "Succeeded") => result = None
        /\ (pc = "Succeeded") =>
               /\ error = None
               /\ result = IF Walks
                           THEN [count |-> Len(ChainResults(1)), next |-> None,
                                 previous |-> None, results |-> ChainResults(1)]
                           ELSE Page(1)

C10_Witness ==
    /\ IsListing /\ pc = "Failed" /\ error.type = "CancelledError"
    /\ position >= 2 /\ all_results # <<>> /\ result = None

\* a follow request that fails for good after pages were accumulated
C10_WitnessTerminal ==
    /\ IsListing /\ pc = "Failed" /\ error.type = "HTTPStatusError"
    /\ position >= 2 /\ all_results # <<>> /\ result = None

\* C11: arguments that fail validation never reach the network. A create
\* whose title has fewer than 3 or more than 200 characters, or whose
\* description is empty or longer than 20000 characters, and an update with
\* none of title, description, resolution_status given, is rejected with a
\* validation error: no transport call is ever issued for it, and it is
\* never retried (it goes from Idle straight to Failed).
C11_InvalidCreate ==
    /\ op = "create_ticket"
    /\ \/ Len(inp.title) < TITLE_MIN \/ Len(inp.title) > TITLE_MAX
       \/ Len(inp.description) = 0 \/ Len(inp.description) > DESC_MAX
C11_EmptyUpdate ==
    /\ op = "update_ticket"
    /\ inp.title = <<>> /\ inp.description = <<>>
    /\ inp.resolution_status = <<>>
C11_InvalidInputNeverSent ==
    (C11_InvalidCreate \/ C11_EmptyUpdate) =>
        /\ reqCalls = 0
        /\ lastReq = None
        /\ lastResp = NoResp
        /\ pc \in {"Idle", "Failed"}
        /\ lastWait = 0
        /\ result = None
        /\ (pc = "Failed") =>
               error.type = (IF op = "create_ticket" THEN "ValidationError"
                             ELSE "ValueError")

C11_Witness ==
    /\ op = "create_ticket" /\ pc = "Failed"
    /\ Len(inp.title) = TITLE_MAX + 1 /\ Len(inp.description) = 1
    /\ error.type = "ValidationError" /\ reqCalls = 0

\* the rejected update
C11_WitnessUpdate ==
    /\ C11_EmptyUpdate /\ pc = "Failed" /\ error.type = "ValueError"
    /\ reqCalls = 0

\* C12: an update is rejected locally exactly when none of its optional
\* fields is given: every update that gives at least one of title,
\* description, resolution_status (non-null, whatever the value, the empty
\* string included) is sent as a PATCH whose JSON body holds exactly the
\* given fields with their values.
C12_GivenFields ==
    {f \in {"title", "description", "resolution_status"} : inp[f] # <<>>}
C12_UpdateSentIffFieldGiven ==
    (op = "update_ticket" /\ pc # "Idle") =>
        IF C12_GivenFields = {}
        THEN reqCalls = 0 /\ pc = "Failed" /\ error.type = "ValueError"
        ELSE /\ reqCalls >= 1
             /\ lastReq # None
             /\ lastReq.method = "PATCH"
             /\ DOMAIN lastReq.json = C12_GivenFields
             /\ \A f \in C12_GivenFields : lastReq.json[f] = inp[f][1]

\* s is the comma-join of parts: the parts in their order, a comma between
\* every two of them.
IsJoinOf(s, parts) ==
    /\ Len(s) = 2 * Len(parts) - 1
    /\ \A k \in 1..Len(s) :
           s[k] = (IF k % 2 = 1 THEN parts[(k + 1) \div 2] ELSE ",")
\* the request of a filter call has been built
ParamsBuilt == op = "get_filtered_tickets" /\ lastReq # None /\ position = 1
\* the distinct statuses the caller named
StatusesNamed == {inp.resolution_status[k] : k \in DOMAIN inp.resolution_status}

\* C13: the query parameters of a filter. An id list with exactly one value
\* gives the plain key id (id=5) and no id__in; with more than one value it
\* gives only id__in, whose value is the ids comma-joined in the caller's
\* order, nothing removed (id__in=5,7); with no value it gives neither key.
\* Statuses likewise, on their distinct values: one gives the plain key
\* resolution_status, more than one only resolution_status__in with the
\* distinct values comma-joined, none neither key.
C13_FilterSerialization ==
    ParamsBuilt =>
        LET p == lastReq.params
            keys == DOMAIN lastReq.params
            ids == inp.id
            n == Cardinality(StatusesNamed)
        IN  /\ (Len(ids) = 0) => ("id" \notin keys /\ "id__in" \notin keys)
            /\ (Len(ids) = 1) =>
                   /\ "id" \in keys /\ "id__in" \notin keys
                   /\ p["id"] = ToString(ids[1])
            /\ (Len(ids) > 1) =>
                   /\ "id__in" \in keys /\ "id" \notin keys
                   /\ IsJoinOf(p["id__in"], [k \in 1..Len(ids) |-> ToString(ids[k])])
            /\ (n = 0) => /\ "resolution_status" \notin keys
                          /\ "resolution_status__in" \notin keys
            /\ (n = 1) =>
                   /\ "resolution_status" \in keys
                   /\ "resolution_status__in" \notin keys
                   /\ p["resolution_status"] \in StatusesNamed
            /\ (n > 1) =>
                   /\ "resolution_status__in" \in keys
                   /\ "resolution_status" \notin keys
                   /\ LET s == p["resolution_status__in"] IN
                      /\ Len(s) = 2 * n - 1
                      /\ {s[k] : k \in {j \in 1..Len(s) : j % 2 = 1}} = StatusesNamed
                      /\ \A k \in {j \in 1..Len(s) : j % 2 = 0} : s[k] = ","

\* ids 7, 7: two values, kept in order and not deduplicated
C13_Witness ==
    /\ ParamsBuilt /\ inp.id = <<7, 7>>
    /\ lastReq.params["id__in"] = <<"7", ",", "7">>
    /\ Len(inp.resolution_status) = 1

\* C14: the status serialization is deterministic. Two filters that differ
\* only in the order or multiplicity of their statuses give identical query
\* parameters; the statuses sent are deduplicated and sorted; a list that
\* collapses to one distinct status uses the plain resolution_status key.
C14_StatusOrderIrrelevant ==
    ParamsBuilt =>
        LET p == lastReq.params IN
        /\ \A sl \in SeqsUpTo(RESOLUTION, MaxStatuses) :
               ({sl[k] : k \in DOMAIN sl} = StatusesNamed) =>
                   ListRequest([inp EXCEPT !.resolution_status = sl]).params = p
        /\ ("resolution_status__in" \in DOMAIN p) =>
               LET s == p["resolution_status__in"] IN
               \A j, k \in 1..Len(s) :
                   (j % 2 = 1 /\ k % 2 = 1 /\ j < k) => StrLess(s[j], s[k])
        /\ (Cardinality(StatusesNamed) = 1) =>
               /\ "resolution_status" \in DOMAIN p
               /\ "resolution_status__in" \notin DOMAIN p
               /\ p["resolution_status"] = inp.resolution_status[1]

C14_Witness ==
    /\ ParamsBuilt
    /\ inp.resolution_status = <<"RESOLVED", "OPEN", "RESOLVED">>
    /\ lastReq.params["resolution_status__in"] = <<"OPEN", ",", "RESOLVED">>

\* a list of two equal statuses collapses to the plain key
C14_WitnessCollapse ==
    /\ ParamsBuilt /\ inp.resolution_status = <<"OPEN", "OPEN">>
    /\ lastReq.params["resolution_status"] = "OPEN"

FacadeKeys == {"ok", "status", "url", "data"}
PageKeys == {"count", "next", "previous", "results"}

BudgetSpent ==
    /\ attempt = MAX_ATTEMPTS
    /\ op = "get_filtered_tickets" => outerAttempt = MAX_ATTEMPTS
    /\ lastResp.kind = "neterr" \/ GotRetryable

\* C16: when the retry budget is exhausted, the failure the caller gets tells
\* how many attempts were made, whether the last attempt ended in a
\* retryable HTTP response or in a connection / timeout error.
C16_ExhaustionCarriesAttempts ==
    (pc = "Failed" /\ ~Cancelled /\ BudgetSpent) =>
        error.attempts = MAX_ATTEMPTS

\* a success-class response whose body is not decodable JSON has arrived
MalformedSuccess == GotHttp /\ IsSuccess(lastResp.status) /\ ~lastResp.json

C17_WitnessError ==
    /\ op = "get_filtered_tickets" /\ MalformedSuccess /\ position = 2
    /\ pc = "Failed" /\ error.type = "JSONDecodeError"

\* transport attempts made so far for the request in flight
AttemptsMade == IF position = 1 THEN reqCalls ELSE attempt

\* C18: the retry loop of one invocation is a state machine whose only
\* transitions are Pending -> Succeeded, Pending -> Failed,
\* Pending -> RetryWait and RetryWait -> Pending (the caller's cancellation
\* apart, which fails a call that is Pending or in RetryWait). Succeeded and
\* Failed are absorbing; a new attempt at a request is made only out of
\* RetryWait, after a positive backoff; and RetryWait is entered only while
\* the number of attempts made is below MAX_ATTEMPTS.
C18_Step ==
    /\ (pc \in {"Succeeded", "Failed"}) => UNCHANGED vars
    /\ (pc = "RetryWait") =>
           \/ pc' = "Pending"
           \/ pc' = "Failed" /\ error'.type = "CancelledError"
    /\ (pc = "Pending") =>
           \/ pc' \in {"Succeeded", "Failed", "RetryWait"}
           \/ pc' = "Pending" /\ position' = position + 1 /\ attempt' = 1
    /\ (pc # "Idle" /\ position' = position /\ pc' = "Pending") =>
           (pc = "RetryWait" /\ lastWait > 0)
    /\ (pc' = "RetryWait") =>
           (pc = "Pending" /\ lastWait' > 0 /\ AttemptsMade < MAX_ATTEMPTS)
C18_RetryLoopStateMachine == [][C18_Step]_vars

\* C19: the backoff schedule. The wait before the retry that follows attempt
\* k is min(max_wait, multiplier * 2^(k-1)) with multiplier 1.2 s, max_wait
\* 10 s and floor 0: in tenths of a second 12, 24, 48, 96, 100 for
\* k = 1..5. The waits never decrease and never exceed max_wait.
C19_Tenths == <<12, 24, 48, 96, 100>>
C19_BackoffSchedule ==
    /\ (pc = "RetryWait") =>
           LET k == IF waiting = "inner" THEN attempt ELSE outerAttempt IN
           /\ k \in 1..(MAX_ATTEMPTS - 1)
           /\ lastWait = C19_Tenths[k]
           /\ lastWait = Min(100, 12 * Pow2(k - 1))
    /\ lastWait <= 100
    /\ \A k \in 1..(MAX_ATTEMPTS - 1) :
           /\ WaitExponential(k) = C19_Tenths[k]
           /\ WaitExponential(k) <= WaitExponential(k + 1)
           /\ WaitExponential(k + 1) <= 100

C19_Witness ==
    /\ pc = "RetryWait" /\ waiting = "inner" /\ attempt = 5
    /\ lastWait = 100 /\ reqCalls = 5

\* results of the first n pages of the chain, in page order
RECURSIVE PagesUpTo(_)
PagesUpTo(n) == IF n = 0 THEN <<>> ELSE PagesUpTo(n - 1) \o ResultsOf(n)
\* the whole chain as one page
WholeListing ==
    [count |-> Len(ChainResults(1)), next |-> None, previous |-> None,
     results |-> ChainResults(1)]
\* what belongs to the first invocation: its attempt counters, its backoff,
\* its accumulator, its outcome
OwnCall ==
    <<pc, waiting, attempt, outerAttempt, position, all_results, lastWait,
      reqCalls, result, error>>
\* a call at pc_, whose decorated calls are at attempts a (inner) and b
\* (outer), is in the state it would be in if it ran alone
AsIfAlone(pc_, w, a, b, pos, acc, wait, res, err) ==
    /\ (pc_ \in {"Pending", "RetryWait"}) =>
           /\ a \in 1..(MaxFaults + 1) /\ b = 1
           /\ acc = PagesUpTo(pos - 1)
           /\ res = None /\ err = None
    /\ (pc_ = "RetryWait") =>
           /\ w = "inner" /\ a < MAX_ATTEMPTS
           /\ wait = C19_Tenths[a]
    /\ (pc_ = "Pending") => wait = 0
    /\ (pc_ = "Succeeded") =>
           /\ res = WholeListing /\ err = None /\ pos = NumPages
    /\ (pc_ = "Failed") =>
           /\ res = None
           /\ err.type \in {"HTTPStatusError", "RequestError"}

\* C20: concurrent tool invocations are independent. Each in-flight call has
\* its own attempt counter, backoff state and pagination accumulator: no
\* step of one call changes anything of the other, and each call's attempt
\* budget, delays, accumulated pages and outcome are those it would have
\* had running alone, whatever the other call went through.
C20_State ==
    /\ AsIfAlone(pc, waiting, attempt, outerAttempt, position, all_results,
                 lastWait, result, error)
    /\ AsIfAlone(peer.pc, peer.waiting, peer.attempt, peer.outerAttempt,
                 peer.position, peer.all_results, peer.lastWait, peer.result,
                 peer.error)
C20_Step ==
    /\ (peer' # peer) => UNCHANGED OwnCall
    /\ (OwnCall' # OwnCall) => peer' = peer
C20_ConcurrentCallsIndependent == []C20_State /\ [][C20_Step]_vars

\* one call fails for good at its first request while the other, two pages
\* into its walk, sleeps its second backoff
C20_Witness ==
    /\ pc = "Failed" /\ error.type = "HTTPStatusError" /\ position = 1
    /\ all_results = <<>>
    /\ peer.pc = "RetryWait" /\ peer.attempt = 2 /\ peer.position = 3
    /\ peer.all_results = PagesUpTo(2) /\ peer.lastWait = 24

\* both calls end, one failed and one with the whole listing
C20_WitnessOutcome ==
    /\ pc = "Succeeded" /\ result = WholeListing /\ netErrSeen
    /\ peer.pc = "Failed" /\ peer.position = 2

\* C21: on update, a 4xx response other than 429 is terminal after that one
\* response, and the error reported carries the response's status and the
\* body the server sent as detail; a 5xx response is retried until the
\* attempt budget is spent.
C21_UpdateErrors ==
    (op = "update_ticket" /\ GotHttp) =>
        /\ Terminal4xx(lastResp.status) =>
               /\ pc = "Failed"
               /\ result = None
               /\ error.type = "HTTPStatusError"
               /\ error.status = lastResp.status
               /\ "detail" \in DOMAIN error
               /\ error.detail = (IF lastResp.json
                                  THEN [detail |-> lastResp.status]
                                  ELSE [text |-> lastResp.len])
               /\ reqCalls = attempt
        /\ (500 <= lastResp.status /\ lastResp.status < 600) =>
               IF attempt < MAX_ATTEMPTS
               THEN pc = "RetryWait" \/ Cancelled
               ELSE /\ pc = "Failed"
                    /\ error.type = "RetryError"
                    /\ error.attempts = MAX_ATTEMPTS
                    /\ reqCalls = MAX_ATTEMPTS

\* a 404 with a JSON detail, after one retried 503
C21_Witness ==
    /\ op = "update_ticket" /\ GotHttp /\ lastResp.status = 404
    /\ lastResp.json /\ pc = "Failed" /\ error.detail = [detail |-> 404]
    /\ attempt = 2 /\ nRetryable = 1

\* the budget spent on 5xx answers
C21_WitnessExhausted ==
    /\ op = "update_ticket" /\ GotHttp /\ lastResp.status = 500
    /\ pc = "Failed" /\ error.type = "RetryError" /\ reqCalls = MAX_ATTEMPTS

\* An HTTP field name in lower case: field names are case-insensitive, so
\* "accept" and "Accept" name the same header.
LowerName(k) == IF k = "Accept" THEN "accept" ELSE k
\* the caller supplied an Accept header
CallerGaveAccept == \E k \in DOMAIN inp.headers : LowerName(k) = "accept"

\* C22: the request get_tickets builds. Its URL is the base URL with exactly
\* one slash before ticket_id (an empty ticket_id gives the path ending in
\* the slash); an Accept header the caller supplied is sent unchanged, and
\* Accept: application/json is added only when the caller supplied none;
\* every other header and the query parameters go through unchanged, on
\* every attempt.
C22_FetchRequestBuilding ==
    (op = "get_tickets" /\ lastReq # None) =>
        /\ lastReq.url =
               (IF inp.ticket_id = ""
                THEN <<"http://ticket-system:8000/api/tickets", "/">>
                ELSE <<"http://ticket-system:8000/api/tickets", "/",
                       inp.ticket_id>>)
        /\ lastReq.params = inp.params
        /\ \A k \in DOMAIN inp.headers :
               k \in DOMAIN lastReq.headers /\ lastReq.headers[k] = inp.headers[k]
        /\ IF CallerGaveAccept
           THEN DOMAIN lastReq.headers = DOMAIN inp.headers
           ELSE /\ DOMAIN lastReq.headers = DOMAIN inp.headers \cup {"Accept"}
                /\ lastReq.headers["Accept"] = "application/json"

\* C23: at-most-once creation. One create_ticket invocation leaves at most
\* one new ticket in the backend store, whatever the interleaving of
\* attempts, timeouts and retries, also when an attempt times out on the
\* client after the backend handled the POST and the client then retries.
C23_AtMostOneTicketCreated ==
    (op = "create_ticket") => stored <= 1

\* how many times ticket tk occurs in the sequence s
Occurrences(s, tk) == Cardinality({k \in DOMAIN s : s[k] = tk})

\* C24: no page is counted twice. In a fetch_all listing over a stable chain
\* the accumulator holds, while the request for page p is in flight or
\* waiting to be retried, exactly the results of pages 1 .. p-1 once each,
\* also after requests were retried and after the outer retry restarted
\* the listing (it is rebuilt from the first page on each restart); a
\* listing that succeeds returns every ticket of the chain exactly once.
C24_NoPageCountedTwice ==
    (Walks /\ ~loops) =>
        /\ \A tk \in 1..total : Occurrences(all_results, tk) <= 1
        /\ (pc = "Pending" \/ (pc = "RetryWait" /\ waiting = "inner")) =>
               all_results = PagesUpTo(position - 1)
        /\ (pc = "RetryWait" /\ waiting = "outer") => result = None
        /\ (pc = "Succeeded") =>
               /\ Len(result.results) = total
               /\ \A tk \in 1..total : Occurrences(result.results, tk) = 1

\* a listing that was restarted by the outer retry and then succeeded
C24_Witness ==
    /\ Walks /\ ~loops /\ pc = "Succeeded" /\ NumPages = 3
    /\ outerAttempt = 2 /\ netErrSeen
    /\ Len(result.results) = 3

\* after the restart the first page's request is in flight again and the
\* accumulator is empty
C24_WitnessRestart ==
    /\ Walks /\ ~loops /\ pc = "Pending" /\ outerAttempt = 2
    /\ position = 1 /\ all_results = <<>> /\ reqCalls > MAX_ATTEMPTS

\* C25: every POST body that create_ticket sends satisfies the constraints
\* as sent: the title has no leading or trailing whitespace and 3 to 200
\* characters, the description is the caller's, unchanged, with 1 to 20000
\* characters.
C25_SentBodyWithinConstraints ==
    (op = "create_ticket" /\ lastReq # None) =>
        LET body == lastReq.json
        IN  /\ body.title = Strip(body.title)
            /\ Len(body.title) >= TITLE_MIN
            /\ Len(body.title) <= TITLE_MAX
            /\ body.description = inp.description
            /\ Len(body.description) >= DESC_MIN
            /\ Len(body.description) <= DESC_MAX

\* ---------------------------------------------------- the ticketing service
\* One request at a time goes through SimulatedNetworkConditionsMiddleware
\* and, if the middleware calls get_response, through URL resolution and
\* TicketViewSet. srv holds the request in hand (req), where it is (stage),
\* whether get_response was called for it (passed), the response status,
\* whether the response is the middleware's own 503 (simulated), the ticket
\* store and the store as it was when the request arrived (before).
MaxRequests == 2

\* str.startswith
StartsWith(str, prefix) ==
    Len(str) >= Len(prefix) /\ SubSeq(str, 1, Len(prefix)) = prefix

Api == <<"/", "a", "p", "i">>
TicketsPath == Api \o <<"/", "t", "i", "c", "k", "e", "t", "s", "/">>
Paths ==
    {<<>>, Api, Api \o <<"/">>, Api \o <<"x">>,
     <<"/", "a", "d", "m", "i", "n", "/">>,
     TicketsPath, TicketsPath \o <<"1", "/">>, TicketsPath \o <<"9", "/">>}
Methods == {"GET", "POST", "PUT", "PATCH"}
\* the primary key a path segment spells
PkOf == [c \in {"1", "9"} |-> IF c = "1" THEN 1 ELSE 9]

\* request.data: a JSON object; bogus is a key the serializer does not
\* list, id a read-only one, "open" a status outside StatusChoices
BodyKeys == {"title", "description", "resolution_status", "id", "bogus"}
BodyValues ==
    [title |-> {"t1"}, description |-> {"d1"},
     resolution_status |-> {"CLOSED", "open"}, id |-> {"7"},
     bogus |-> {"x"}]
Bodies ==
    UNION {{b \in [ks -> {"t1", "d1", "CLOSED", "open", "7", "x"}] :
              \A k \in ks : b[k] \in BodyValues[k]} : ks \in SUBSET BodyKeys}
\* a GET and a request outside the tickets routes carry no body
Requests ==
    {r \in [method : Methods, path : Paths, data : Bodies] :
        (r.method = "GET" \/ ~StartsWith(r.path, TicketsPath)) =>
            r.data = EmptyParams}

\* A middleware that takes every path beginning with /api for an API path.
IsApiPath_AnyPrefix(path) == StartsWith(path, Api)

\* middleware.py line 16: path == "/api" or path.startswith("/api/")
IsApiPath(path) == path = Api \/ StartsWith(path, Api \o <<"/">>)

\* TicketSerializer.Meta.fields
SerializerFields ==
    {"id", "title", "description", "resolution_status", "created_at",
     "updated_at"}
\* StatusChoices.values
StatusValues == {"OPEN", "RESOLVED", "CLOSED"}

\* _validate_fields: the keys provided that the serializer does not list
InvalidFields(data) == DOMAIN data \ SerializerFields
\* _validate_status: resolution_status is given and is not a StatusChoices
\* value
InvalidStatus(data) ==
    "resolution_status" \in DOMAIN data
        /\ data["resolution_status"] \notin StatusValues

\* Checks that look at the status before the field names.
UpdateChecks_StatusFirst(data) ==
    IF InvalidStatus(data) THEN 422
    ELSE IF InvalidFields(data) # {} THEN 400
    ELSE 0

\* update / partial_update, lines 85-86 and 90-91: the status the checks
\* reject the body with, 0 when both pass
UpdateChecks(data) ==
    IF InvalidFields(data) # {} THEN 400
    ELSE IF InvalidStatus(data) THEN 422
    ELSE 0

\* the writable fields of a body
Writable(data) ==
    DOMAIN data \cap {"title", "description", "resolution_status"}
\* serializer.save() on an existing ticket
Updated(ticket, data) ==
    [k \in DOMAIN ticket |-> IF k \in Writable(data) THEN data[k] ELSE ticket[k]]
\* serializer.save() of a new ticket; resolution_status defaults to OPEN
Created(data) ==
    [title |-> data["title"], description |-> data["description"],
     resolution_status |->
         IF "resolution_status" \in DOMAIN data
         THEN data["resolution_status"] ELSE "OPEN"]
\* serializer.is_valid: title and description are required unless the
\* update is partial, and the status is one of the choices
SerializerValid(data, partial) ==
    /\ partial \/ {"title", "description"} \subseteq DOMAIN data
    /\ ~InvalidStatus(data)

\* The route of TicketViewSet a path resolves to: the list route, the detail
\* route of a primary key, or none.
Route(path) ==
    IF path = TicketsPath THEN [kind |-> "list"]
    ELSE IF /\ StartsWith(path, TicketsPath)
            /\ Len(path) = Len(TicketsPath) + 2
            /\ path[Len(path)] = "/"
            /\ path[Len(path) - 1] \in DOMAIN PkOf
         THEN [kind |-> "detail", pk |-> PkOf[path[Len(path) - 1]]]
         ELSE [kind |-> "none"]

\* What get_response does with request r on store s: the response status and
\* the store afterwards.
Respond(r, s) ==
    LET route == Route(r.path)
        same(code) == [status |-> code, store |-> s]
    IN  CASE route.kind = "none" -> same(404)
          [] route.kind = "list" ->
                IF r.method = "GET" THEN same(200)
                ELSE IF r.method = "POST"
                THEN IF SerializerValid(r.data, FALSE)
                     THEN [status |-> 201,
                           store |-> Append(s, Created(r.data))]
                     ELSE same(400)
                ELSE same(405)
          [] route.kind = "detail" ->
                IF r.method = "POST" THEN same(405)
                ELSE IF r.method = "GET"
                THEN same(IF route.pk \in DOMAIN s THEN 200 ELSE 404)
                ELSE IF UpdateChecks(r.data) # 0
                THEN same(UpdateChecks(r.data))
                ELSE IF route.pk \notin DOMAIN s THEN same(404)
                ELSE IF ~SerializerValid(r.data, r.method = "PATCH")
                THEN same(400)
                ELSE [status |-> 200,
                      store |-> [s EXCEPT ![route.pk] = Updated(@, r.data)]]

\* what a step of the service leaves alone
ToolIdle ==
    UNCHANGED <<op, inp, total, psize, loops, pc, waiting, attempt,
                outerAttempt, position, all_results, lastReq, lastResp,
                reqCalls, nRetryable, netErrSeen, only503, lastWait, result,
                error, peer, stored, chat>>

\* SimulatedNetworkConditionsMiddleware.__call__ takes request r; disrupt
\* is the draw random.random() < 0.25.
Middleware(r, disrupt) ==
    /\ srv.stage \in {"none", "answered"}
    /\ srv.handled < MaxRequests
    /\ srv' = IF IsApiPath(r.path) /\ disrupt
              THEN [srv EXCEPT !.stage = "answered", !.req = r,
                               !.status = 503, !.simulated = TRUE,
                               !.passed = FALSE, !.before = srv.store,
                               !.handled = @ + 1]
              ELSE [srv EXCEPT !.stage = "view", !.req = r,
                               !.status = 0, !.simulated = FALSE,
                               !.passed = TRUE, !.before = srv.store,
                               !.handled = @ + 1]
    /\ ToolIdle

\* get_response(request): the view answers the request in hand.
View ==
    /\ srv.stage = "view"
    /\ LET a == Respond(srv.req, srv.store)
       IN  srv' = [srv EXCEPT !.stage = "answered", !.status = a.status,
                              !.store = a.store]
    /\ ToolIdle

InitBackend ==
    /\ op = "create_ticket"
    /\ inp = [title |-> <<"a", "b", "c">>, description |-> <<"d">>]
    /\ total = 0 /\ psize = 1 /\ loops = FALSE
    /\ NotStarted
    /\ peer = PeerIdle
    /\ stored = 0
    /\ Elsewhere

NextBackend ==
    \/ \E r \in Requests, disrupt \in BOOLEAN : Middleware(r, disrupt)
    \/ View

SpecBackend == InitBackend /\ [][NextBackend]_vars

\* the request in hand has been answered
Answered == srv.stage = "answered"

\* C26: a request answered with the simulated 503 was never passed to the
\* view and left the ticket store as it was, so that sending it again acts
\* on the store the first sending found; a request whose path is neither
\* /api nor under /api/ is always passed to the view and never gets the
\* simulated 503.
C26_SimulatedDisruption ==
    (srv.stage # "none") =>
        /\ srv.simulated =>
               /\ Answered /\ srv.status = 503
               /\ ~srv.passed
               /\ srv.store = srv.before
               /\ srv.req.path = Api
                      \/ StartsWith(srv.req.path, Api \o <<"/">>)
        /\ (srv.req.path # Api /\ ~StartsWith(srv.req.path, Api \o <<"/">>)) =>
               /\ srv.passed
               /\ ~srv.simulated

\* a POST to the list route answered with the simulated 503, sent a second
\* time: the store is still the initial one
C26_Witness ==
    /\ Answered /\ srv.simulated /\ srv.handled = 2
    /\ srv.req.method = "POST" /\ srv.req.path = TicketsPath
    /\ SerializerValid(srv.req.data, FALSE)
    /\ srv.store = InitialStore

\* /apix is not an API path: it went to the view
C26_WitnessOutside ==
    /\ Answered /\ srv.req.path = Api \o <<"x">> /\ srv.passed
    /\ srv.status = 404

\* the request in hand is a PUT or PATCH that update / partial_update
\* answered
UpdateAnswered ==
    /\ Answered /\ srv.passed
    /\ srv.req.method \in {"PUT", "PATCH"}
    /\ Route(srv.req.path).kind = "detail"

\* C27: a PUT or PATCH whose body has a key outside the serializer's field
\* list is answered 400, whatever its status value; otherwise one whose
\* resolution_status is not OPEN, RESOLVED or CLOSED is answered 422; in
\* both cases the store is unchanged, and an update changes the store only
\* when both checks passed.
C27_UpdateValidation ==
    UpdateAnswered =>
        LET data == srv.req.data
            unknown == DOMAIN data \ SerializerFields
            badStatus ==
                "resolution_status" \in DOMAIN data
                    /\ data["resolution_status"] \notin {"OPEN", "RESOLVED", "CLOSED"}
        IN  /\ (unknown # {}) =>
                   srv.status = 400 /\ srv.store = srv.before
            /\ (unknown = {} /\ badStatus) =>
                   srv.status = 422 /\ srv.store = srv.before
            /\ (srv.store # srv.before) =>
                   unknown = {} /\ ~badStatus /\ srv.status = 200

\* an unknown key together with an invalid status: 400, not 422
C27_Witness ==
    /\ UpdateAnswered /\ srv.status = 400
    /\ "bogus" \in DOMAIN srv.req.data
    /\ "resolution_status" \in DOMAIN srv.req.data
    /\ srv.req.data["resolution_status"] = "open"
    /\ srv.store = srv.before

C27_Witness422 ==
    /\ UpdateAnswered /\ srv.status = 422 /\ srv.req.method = "PUT"
    /\ srv.store = srv.before

C27_WitnessStored ==
    /\ UpdateAnswered /\ srv.status = 200 /\ srv.store # srv.before

\* ------------------------------------------------------- the chat stream
\* stream_chat is an async generator: chat.frames are the SSE frames it has
\* yielded so far, by event name ("retry" is RETRY_HINT), chat.pc is where
\* it is suspended:
\*   "new"       created, not yet iterated
\*   "hinted"    RETRY_HINT yielded, graph.ainvoke awaited
\*   "tokened"   the token frame yielded
\*   "ended"     the end frame yielded
\*   "erred"     the error frame yielded
\*   "done"      returned
\*   "crashed"   left by an exception
\*   "cancelled" left by CancelledError / GeneratorExit
\* chat.messages is what the graph returned, chat.raised whether it raised;
\* chat.read counts the frames cli.py has consumed and chat.cli is
\* "returned" once it has left its loop.
MaxMessages == 2

\* the messages a graph run leaves in its state
Messages ==
    {[type |-> "ai", content |-> ""], [type |-> "ai", content |-> "hi"],
     [type |-> "human", content |-> "q"], [type |-> "tool", content |-> "r"]}
GraphResults == UNION {[1..n -> Messages] : n \in 0..MaxMessages}

\* lines 222-226: the content of the last AIMessage, "" if there is none
RECURSIVE LastAIContent(_)
LastAIContent(msgs) ==
    IF msgs = <<>> THEN ""
    ELSE IF msgs[Len(msgs)].type = "ai" THEN msgs[Len(msgs)].content
    ELSE LastAIContent(SubSeq(msgs, 1, Len(msgs) - 1))

Terminal == {"end", "error"}

\* what a step of the stream or of its reader leaves alone
ChatFrame ==
    UNCHANGED <<op, inp, total, psize, loops, pc, waiting, attempt,
                outerAttempt, position, all_results, lastReq, lastResp,
                reqCalls, nRetryable, netErrSeen, only503, lastWait, result,
                error, peer, stored, srv>>

\* The first iteration: get_graph() (line 214), which raises when
\* build_chain does (a missing AZURE_OPENAI_CHAT_DEPLOYMENT, graph_ascii.txt
\* not writable), then yield RETRY_HINT.
StartStream(built) ==
    /\ chat.pc = "new"
    /\ chat' = IF built
               THEN [chat EXCEPT !.pc = "hinted", !.frames = <<"retry">>]
               ELSE [chat EXCEPT !.pc = "crashed"]
    /\ ChatFrame

\* graph.ainvoke returns msgs: the token frame if there is output, else
\* the end frame.
GraphReturns(msgs) ==
    /\ chat.pc = "hinted"
    /\ chat' = IF LastAIContent(msgs) # ""
               THEN [chat EXCEPT !.pc = "tokened", !.messages = msgs,
                                 !.frames = Append(@, "token")]
               ELSE [chat EXCEPT !.pc = "ended", !.messages = msgs,
                                 !.frames = Append(@, "end")]
    /\ ChatFrame

\* graph.ainvoke raises an Exception: the error frame.
GraphRaises ==
    /\ chat.pc = "hinted"
    /\ chat' = [chat EXCEPT !.pc = "erred", !.raised = TRUE,
                            !.frames = Append(@, "error")]
    /\ ChatFrame

\* after the token frame: asyncio.sleep(0), then the end frame
EndAfterToken ==
    /\ chat.pc = "tokened"
    /\ chat' = [chat EXCEPT !.pc = "ended", !.frames = Append(@, "end")]
    /\ ChatFrame

\* resumed after its terminal frame, the generator returns
Exhaust ==
    /\ chat.pc \in {"ended", "erred"}
    /\ chat' = [chat EXCEPT !.pc = "done"]
    /\ ChatFrame

\* The client goes away while the generator is suspended: CancelledError or
\* GeneratorExit, which except Exception does not catch.
CancelStream ==
    /\ chat.pc \in {"hinted", "tokened", "ended", "erred"}
    /\ chat' = [chat EXCEPT !.pc = "cancelled"]
    /\ ChatFrame

\* cli.py: the reader takes the next frame and returns on end or error.
CliReads ==
    /\ chat.cli = "reading"
    /\ chat.read < Len(chat.frames)
    /\ chat' = [chat EXCEPT !.read = @ + 1,
                            !.cli = IF chat.frames[chat.read + 1] \in Terminal
                                    THEN "returned" ELSE "reading"]
    /\ ChatFrame

InitChat ==
    /\ op = "create_ticket"
    /\ inp = [title |-> <<"a", "b", "c">>, description |-> <<"d">>]
    /\ total = 0 /\ psize = 1 /\ loops = FALSE
    /\ NotStarted
    /\ peer = PeerIdle
    /\ stored = 0
    /\ Elsewhere

NextChat ==
    \/ \E built \in BOOLEAN : StartStream(built)
    \/ \E msgs \in GraphResults : GraphReturns(msgs)
    \/ GraphRaises
    \/ EndAfterToken
    \/ Exhaust
    \/ CancelStream
    \/ CliReads

SpecChat == InitChat /\ [][NextChat]_vars

\* the positions of the frames of the given events
FramesOf(events) == {k \in DOMAIN chat.frames : chat.frames[k] \in events}
\* the stream is over and was not cancelled
StreamOver == chat.pc \in {"done", "crashed"}

\* C28: every stream of stream_chat starts with the retry hint frame, has at
\* most one token frame and, unless it is cancelled, ends with exactly one
\* terminal frame (end or error); no frame follows the terminal frame; an
\* exception raised by the graph gives error and never end.
C28_StreamOrdering ==
    /\ (chat.pc # "new") =>
           chat.frames # <<>> /\ chat.frames[1] = "retry"
    /\ Cardinality(FramesOf({"token"})) <= 1
    /\ Cardinality(FramesOf(Terminal)) <= 1
    /\ \A k \in FramesOf(Terminal) : k = Len(chat.frames)
    /\ StreamOver =>
           /\ Cardinality(FramesOf(Terminal)) = 1
           /\ chat.frames[Len(chat.frames)] \in Terminal
    /\ chat.raised =>
           /\ FramesOf({"end"}) = {}
           /\ chat.pc \in {"erred", "done", "cancelled"} =>
                  chat.frames[Len(chat.frames)] = "error"

====
